---- MODULE Spec2Model ----
(***************************************************************************)
(* Stratus: the reconciliation loop (sync / deploy / db push / migrate     *)
(* dev) over one migrations directory and one PostgreSQL database.         *)
(*                                                                         *)
(* Every CLI invocation runs to completion before the next one starts      *)
(* (src/src/main.rs is single-threaded and blocking), so one invocation is *)
(* one action.  What an invocation sent to the server is kept in           *)
(* last.wire, one entry per StratusClient call.                            *)
(***************************************************************************)
EXTENDS Integers, Sequences, FiniteSets, TLC

VARIABLES
    db,        \* the live database catalogue: table name -> set of column names
    store,     \* the migrations directory: directory name -> files of a migration
    committed, \* history: directories whose up.sql was committed on db
    last       \* what the last invocation was given, sent and answered

vars == <<db, store, committed, last>>

----------------------------------------------------------------------------
(* Bounds of the model. *)

MaxMigrations == 2   \* directories the migrations directory may hold

TableNames == {"a", "b"}
ColNames == {"id", "x"}
RandVals == {2, 10}  \* values rand::random::<u32>() is drawn from
RawNames == {"Add_A"}   \* values of --name
Envs == {"Production", "staging"}   \* values of --env
Now == 11            \* SystemTime::now() in seconds while the invocations run
Earlier == 10        \* the second in which the migrations found at the start were made

Statuses == {"draft", "reviewed", "applied", "failed"}

----------------------------------------------------------------------------
(* Strings that the code formats and compares: sequences of character codes *)

Underscore == 95

RECURSIVE Digits(_)
Digits(n) ==
    IF n < 10 THEN <<48 + n>> ELSE Digits(n \div 10) \o <<48 + (n % 10)>>

\* format!("{:}_{}", timestamp, random_suffix)
FormatId(timestamp, random_suffix) ==
    Digits(timestamp) \o <<Underscore>> \o Digits(random_suffix)

\* Ord for String: lexicographic comparison of the bytes
RECURSIVE StrLess(_, _)
StrLess(s, t) ==
    IF t = <<>> THEN FALSE
    ELSE IF s = <<>> THEN TRUE
    ELSE IF Head(s) # Head(t) THEN Head(s) < Head(t)
    ELSE StrLess(Tail(s), Tail(t))

StrLeq(s, t) == s = t \/ StrLess(s, t)

\* name.to_lowercase().replace('_', "-").replace(' ', "-")
FormatName(name) ==
    CASE name = "Add_A" -> "add-a"
      [] name = "add-a" -> "add-a"
      [] name = "fix b" -> "fix-b"
      [] OTHER -> name

\* env_name.to_lowercase()
ToLowercase(env) ==
    CASE env = "Production" -> "production"
      [] OTHER -> env

----------------------------------------------------------------------------
(* Sequences *)

Range(s) == {s[i] : i \in DOMAIN s}

\* the orders in which a HashMap holding the keys S may be iterated
Perms(S) ==
    {s \in [1..Cardinality(S) -> S] :
        \A i, j \in 1..Cardinality(S) : i # j => s[i] # s[j]}

RECURSIVE Flatten(_)
Flatten(ss) == IF ss = <<>> THEN <<>> ELSE Head(ss) \o Flatten(Tail(ss))

----------------------------------------------------------------------------
(* The schema document.  A declared schema maps a table name to the set of  *)
(* its column names; the attributes of a column are fixed by its name:      *)
(* "id" is declared isPrimaryKey and isNotNull, "x" is a nullable column.   *)

Schemas ==
    UNION {[T -> SUBSET ColNames] : T \in SUBSET TableNames}

is_primary_key(col) == col = "id"
is_not_null(col) == col = "id"

\* the schema documents the invocations of the model are given
Documents ==
    {d \in Schemas :
        \/ DOMAIN d = {}
        \/ DOMAIN d = {"a"} /\ d["a"] \in {{"x"}, {"id"}}
        \/ DOMAIN d = {"a", "b"} /\ d["a"] = {"x"} /\ d["b"] = {"id"}}

\* schema documents that declare a table under a name with a capital letter
MixedCaseDocuments == {[t \in {"B"} |-> {"x"}]}

\* an identifier written without quotes in SQL text, as the server reads it:
\* folded to lower case
Fold(name) ==
    CASE name = "B" -> "b"
      [] OTHER -> name

\* the catalogues a database may have
Catalogs == Schemas
EmptyCatalog == CHOOSE c \in Catalogs : DOMAIN c = {}

----------------------------------------------------------------------------
(* SQL text: the sequence of its statements *)

Stmt(op, table, col, cols, pk) ==
    [op |-> op, table |-> table, col |-> col, cols |-> cols, pk |-> pk]

\* "<name> <type> NULL" or "<name> <type> NOT NULL"
ColumnDef(col) == [name |-> col, nullable |-> ~is_not_null(col)]

DropColumnSql(table, col) == Stmt("DROP COLUMN IF EXISTS", table, col, <<>>, <<>>)
DropTableSql(table) == Stmt("DROP TABLE IF EXISTS CASCADE", table, "", <<>>, <<>>)
AddColumnSql(table, col) == Stmt("ADD COLUMN", table, col, <<ColumnDef(col)>>, <<>>)
CommentSql(table) == Stmt("--", table, "", <<>>, <<>>)

\* The CREATE TABLE statements generate_create_table_sql may write for a
\* table: the PRIMARY KEY clause over the primary-key columns, then a
\* definition of every column that is not a primary-key column, both in the
\* iteration order of table.columns.
generate_create_table_sql(table_name, columns) ==
    {Stmt("CREATE TABLE", table_name, "",
          [i \in 1..Len(SelectSeq(order, LAMBDA c : ~is_primary_key(c))) |->
              ColumnDef(SelectSeq(order, LAMBDA c : ~is_primary_key(c))[i])],
          SelectSeq(order, is_primary_key)) : order \in Perms(columns)}

----------------------------------------------------------------------------
(* The diff engine *)

\* a HashMap<String, Vec<_>> in one of its iteration orders: the keys T in
\* some order, the vector of key t being Items(t) in some order
ColumnMaps(T, Items(_)) ==
    UNION {
        {[i \in 1..Len(order) |-> [table |-> order[i], columns |-> f[order[i]]]] :
            f \in {g \in [T -> UNION {Perms(Items(t)) : t \in T}] :
                      \A t \in T : g[t] \in Perms(Items(t))}} :
        order \in Perms(T)}

\* the warning of a dropped table, were it not to name the table
TableWarningUnnamed(table) == [table |-> "", col |-> ""]

TableWarning(table) == [table |-> table, col |-> ""]
ColumnWarning(table, col) == [table |-> table, col |-> col]

DefaultDiff ==
    [create_tables |-> <<>>, alter_tables |-> <<>>, drop_tables |-> <<>>,
     create_columns |-> <<>>, alter_columns |-> <<>>, drop_columns |-> <<>>,
     create_enums |-> <<>>, drop_enums |-> <<>>,
     data_loss_warning |-> <<>>, sql |-> <<>>]

\* has_changes, were a diff without alterations to count as a change
HasChangesUnlessAltered(diff) ==
    \/ diff.create_tables # <<>>
    \/ diff.drop_tables # <<>>
    \/ diff.create_columns # <<>>
    \/ diff.drop_columns # <<>>
    \/ diff.alter_tables = <<>>
    \/ diff.alter_columns = <<>>

\* has_changes, were the enum collections to count as well
HasChangesOrEnums(diff) ==
    \/ diff.create_tables # <<>>
    \/ diff.alter_tables # <<>>
    \/ diff.drop_tables # <<>>
    \/ diff.create_columns # <<>>
    \/ diff.alter_columns # <<>>
    \/ diff.drop_columns # <<>>
    \/ diff.create_enums # <<>>
    \/ diff.drop_enums # <<>>

has_changes(diff) ==
    \/ diff.create_tables # <<>>
    \/ diff.alter_tables # <<>>
    \/ diff.drop_tables # <<>>
    \/ diff.create_columns # <<>>
    \/ diff.alter_columns # <<>>
    \/ diff.drop_columns # <<>>

\* sha256 of the SQL text; distinct texts have distinct digests
checksum(sql) == <<"sha256", sql>>
NoChecksum == <<"None">>

\* the SQL text of a diff, were the created tables to be written first
DiffSqlCreatesFirst(drop_columns, drop_tables, create_stmts, create_columns) ==
    create_stmts
    \o Flatten([i \in 1..Len(drop_columns) |->
                [j \in 1..Len(drop_columns[i].columns) |->
                    DropColumnSql(drop_columns[i].table, drop_columns[i].columns[j])]])
    \o [i \in 1..Len(drop_tables) |-> DropTableSql(drop_tables[i])]
    \o Flatten([i \in 1..Len(create_columns) |->
                [j \in 1..Len(create_columns[i].columns) |->
                    AddColumnSql(create_columns[i].table, create_columns[i].columns[j])]])

\* the SQL text compare_schemas writes for the collections of a diff
DiffSql(drop_columns, drop_tables, create_stmts, create_columns) ==
    Flatten([i \in 1..Len(drop_columns) |->
                [j \in 1..Len(drop_columns[i].columns) |->
                    DropColumnSql(drop_columns[i].table, drop_columns[i].columns[j])]])
    \o [i \in 1..Len(drop_tables) |-> DropTableSql(drop_tables[i])]
    \o create_stmts
    \o Flatten([i \in 1..Len(create_columns) |->
                [j \in 1..Len(create_columns[i].columns) |->
                    AddColumnSql(create_columns[i].table, create_columns[i].columns[j])]])

\* the warnings of the dropped columns, were only the first column of a
\* table to get one
FirstColumnWarnings(worder, drop_columns) ==
    [i \in 1..Len(worder) |->
        LET e == CHOOSE e \in Range(drop_columns) : e.table = worder[i]
        IN ColumnWarning(e.table, e.columns[1])]

\* the warnings of the dropped columns, pushed while db_schema.tables is
\* iterated in the order worder
ColumnWarnings(worder, drop_columns) ==
    Flatten([i \in 1..Len(worder) |->
        LET e == CHOOSE e \in Range(drop_columns) : e.table = worder[i]
        IN [j \in 1..Len(e.columns) |-> ColumnWarning(e.table, e.columns[j])]])

\* compare_schemas(json_schema, db_schema): the diffs it may return, one for
\* each iteration order of the maps it walks
compare_schemas(json_schema, db_schema) ==
    LET both == DOMAIN json_schema \cap DOMAIN db_schema
        toCreate == DOMAIN json_schema \ DOMAIN db_schema
        toDrop == DOMAIN db_schema \ DOMAIN json_schema
        Added(t) == json_schema[t] \ db_schema[t]
        Removed(t) == db_schema[t] \ json_schema[t]
        addTables == {t \in both : Added(t) # {}}
        dropTables == {t \in both : Removed(t) # {}}
    IN UNION {UNION {UNION {UNION {
         {[DefaultDiff EXCEPT
              !.create_tables = ct,
              !.drop_tables = dt,
              !.create_columns = cc,
              !.drop_columns = dc,
              !.data_loss_warning =
                  [i \in 1..Len(dt) |-> TableWarning(dt[i])]
                  \o ColumnWarnings(worder, dc),
              !.sql = DiffSql(dc, dt, [i \in 1..Len(ct) |-> cs[ct[i]]], cc)] :
            cs \in {g \in [toCreate ->
                           UNION {generate_create_table_sql(t, json_schema[t]) :
                                     t \in toCreate}] :
                      \A t \in toCreate :
                         g[t] \in generate_create_table_sql(t, json_schema[t])},
            worder \in Perms(dropTables)} :
         dc \in ColumnMaps(dropTables, Removed)} :
         cc \in ColumnMaps(addTables, Added)} :
         dt \in Perms(toDrop)} :
         ct \in Perms(toCreate)}

\* generate_rollback, were it to leave the added columns in place
RollbackTablesOnly(diff) ==
    [i \in 1..Len(diff.create_tables) |-> DropTableSql(diff.create_tables[i])]
    \o Flatten([i \in 1..Len(diff.drop_tables) |->
                <<CommentSql(diff.drop_tables[i]), CommentSql("")>>])

\* SchemaDiff::generate_rollback
generate_rollback(diff) ==
    [i \in 1..Len(diff.create_tables) |-> DropTableSql(diff.create_tables[i])]
    \o Flatten([i \in 1..Len(diff.create_columns) |->
                [j \in 1..Len(diff.create_columns[i].columns) |->
                    DropColumnSql(diff.create_columns[i].table,
                                  diff.create_columns[i].columns[j])]])
    \o Flatten([i \in 1..Len(diff.drop_tables) |->
                <<CommentSql(diff.drop_tables[i]), CommentSql("")>>])

----------------------------------------------------------------------------
(* The PostgreSQL server behind StratusClient *)

WithoutTable(cat, table) == [t \in DOMAIN cat \ {table} |-> cat[t]]
WithTable(cat, table, cols) ==
    [t \in DOMAIN cat \cup {table} |-> IF t = table THEN cols ELSE cat[t]]

\* one statement against the catalogue cat: whether the server accepts it,
\* and the catalogue afterwards
ExecStmt(cat, s) ==
    LET table == Fold(s.table)
        col == Fold(s.col)
        defined == {Fold(s.cols[i].name) : i \in DOMAIN s.cols}
    IN
    CASE s.op = "DROP COLUMN IF EXISTS" ->
            IF table \in DOMAIN cat
            THEN [ok |-> TRUE, cat |-> WithTable(cat, table, cat[table] \ {col})]
            ELSE [ok |-> FALSE, cat |-> cat]
      [] s.op = "DROP TABLE IF EXISTS CASCADE" ->
            [ok |-> TRUE, cat |-> WithoutTable(cat, table)]
      [] s.op = "CREATE TABLE" ->
            \* a column named in the key must be defined by the statement
            IF table \notin DOMAIN cat
               /\ {Fold(s.pk[i]) : i \in DOMAIN s.pk} \subseteq defined
            THEN [ok |-> TRUE, cat |-> WithTable(cat, table, defined)]
            ELSE [ok |-> FALSE, cat |-> cat]
      [] s.op = "ADD COLUMN" ->
            IF table \in DOMAIN cat /\ col \notin cat[table]
            THEN [ok |-> TRUE, cat |-> WithTable(cat, table, cat[table] \cup {col})]
            ELSE [ok |-> FALSE, cat |-> cat]
      [] OTHER -> [ok |-> TRUE, cat |-> cat]

\* the statements of sql from the i-th on, in order, stopping at the first
\* the server rejects; statement number reject is rejected for a reason the
\* catalogue does not show (rows violating NOT NULL, an unknown type name,
\* text edited by hand), reject = 0 meaning none
RECURSIVE RunBatch(_, _, _, _)
RunBatch(cat, sql, i, reject) ==
    IF i > Len(sql) THEN [ok |-> TRUE, cat |-> cat]
    ELSE IF i = reject THEN [ok |-> FALSE, cat |-> cat]
    ELSE LET r == ExecStmt(cat, sql[i])
         IN IF r.ok THEN RunBatch(r.cat, sql, i + 1, reject) ELSE r

NoDir == <<>>

\* a connection: the catalogue other sessions see, the catalogue this session
\* sees, whether a transaction block is open and whether it has failed, and
\* the calls made so far
Connect(cat) ==
    [live |-> cat, view |-> cat, in_txn |-> FALSE, aborted |-> FALSE, wire |-> <<>>]

Sent(sess, cmd, sql, mig, ok, next) ==
    [next EXCEPT !.wire = Append(sess.wire,
        [cmd |-> cmd, sql |-> sql, mig |-> mig, ok |-> ok,
         in_txn |-> sess.in_txn, seen |-> next.live])]

\* the result of the last call on the connection
LastOk(sess) == sess.wire[Len(sess.wire)].ok

\* the apply step took its Ok arm: the last call on the connection is COMMIT
Committed(sess) == sess.wire[Len(sess.wire)].cmd = "COMMIT"

\* StratusClient::execute: batch_execute of the text.  Inside a transaction
\* block a rejected statement fails the block; outside one the batch is its
\* own transaction.
Execute(sess, sql, mig, reject) ==
    LET r == RunBatch(sess.view, sql, 1, reject)
    IN IF sess.in_txn
       THEN IF sess.aborted
            THEN Sent(sess, "EXEC", sql, mig, FALSE, sess)
            ELSE Sent(sess, "EXEC", sql, mig, r.ok,
                      [sess EXCEPT !.view = r.cat, !.aborted = ~r.ok])
       ELSE IF r.ok
            THEN Sent(sess, "EXEC", sql, mig, TRUE,
                      [sess EXCEPT !.view = r.cat, !.live = r.cat])
            ELSE Sent(sess, "EXEC", sql, mig, FALSE, sess)

\* StratusClient::begin
Begin(sess) ==
    Sent(sess, "BEGIN", <<>>, NoDir, TRUE, [sess EXCEPT !.in_txn = TRUE])

\* StratusClient::commit
Commit(sess) ==
    Sent(sess, "COMMIT", <<>>, NoDir, TRUE,
         IF sess.in_txn /\ ~sess.aborted
         THEN [sess EXCEPT !.live = sess.view, !.in_txn = FALSE]
         ELSE [sess EXCEPT !.view = sess.live, !.in_txn = FALSE, !.aborted = FALSE])

\* StratusClient::rollback
Rollback(sess) ==
    Sent(sess, "ROLLBACK", <<>>, NoDir, TRUE,
         [sess EXCEPT !.view = sess.live, !.in_txn = FALSE, !.aborted = FALSE])

\* the statement of a batch that the server rejects for a reason outside the
\* catalogue: its last one, or none
RejectAt(sql, rejected) == IF rejected THEN Len(sql) ELSE 0

----------------------------------------------------------------------------
(* The migration store *)

\* A migration directory: meta.json (id, name, checksum, status, applied_at),
\* up.sql and down.sql; has_meta tells whether meta.json is there
MigrationFiles(id, name, sum, status, up_sql, down_sql) ==
    [has_meta |-> TRUE, id |-> id, name |-> name, checksum |-> sum,
     status |-> status, applied_at |-> "None", up_sql |-> up_sql,
     down_sql |-> down_sql]

DirName(id, formatted_name) == <<id, formatted_name>>

\* create_migration: the directory it writes
create_migration(dir, name, up_sql, down_sql, sum, timestamp, random_suffix) ==
    LET id == FormatId(timestamp, random_suffix)
        formatted_name == FormatName(name)
        migration_dir == DirName(id, formatted_name)
    IN [d \in DOMAIN dir \cup {migration_dir} |->
           IF d = migration_dir
           THEN MigrationFiles(id, formatted_name, sum, "draft", up_sql, down_sql)
           ELSE dir[d]]

\* the directory create_migration(.., name, .., timestamp, random_suffix) writes
CreatedDir(name, timestamp, random_suffix) ==
    DirName(FormatId(timestamp, random_suffix), FormatName(name))

\* the Migration load_migrations builds, were meta.json to lose the checksum
LoadedWithoutChecksum(d, files) ==
    [dir |-> d, id |-> files.id, name |-> files.name, checksum |-> NoChecksum,
     status |-> files.status, up_sql |-> files.up_sql, down_sql |-> files.down_sql,
     applied |-> FALSE, applied_at |-> "None"]

\* the Migration load_migrations builds from a directory
Loaded(d, files) ==
    [dir |-> d, id |-> files.id, name |-> files.name, checksum |-> files.checksum,
     status |-> files.status, up_sql |-> files.up_sql, down_sql |-> files.down_sql,
     applied |-> FALSE, applied_at |-> "None"]

\* load_migrations, were it to return the migrations in the order read
AsRead(ms) == TRUE

\* migrations.sort_by(|a, b| a.meta.id.cmp(&b.meta.id)): what holds of the result
SortedById(ms) ==
    \A i, j \in DOMAIN ms : i < j => StrLeq(ms[i].id, ms[j].id)

\* load_migrations, were it to take a directory without meta.json as well
HasMetaOrNot(files) == TRUE

\* meta_path.exists()
HasMeta(files) == files.has_meta

\* load_migrations: the directory entries that hold a meta.json, in the order
\* read_dir yields them, sorted by id (the sort is stable, so equal ids keep
\* the order read)
load_migrations(dir) ==
    {ms \in {[i \in 1..Len(order) |-> Loaded(order[i], dir[order[i]])] :
                order \in Perms({d \in DOMAIN dir : HasMeta(dir[d])})} :
        SortedById(ms)}

----------------------------------------------------------------------------
(* What an invocation leaves behind *)

NoInvocation ==
    [cmd |-> "none", force |-> FALSE, dry_run |-> FALSE, accept_data_loss |-> FALSE,
     force_reset |-> FALSE, create_only |-> FALSE, env |-> "unknown", yes |-> FALSE,
     schema |-> EmptyCatalog,
     before |-> EmptyCatalog, introspected |-> EmptyCatalog, diff |-> DefaultDiff,
     wire |-> <<>>, created |-> NoDir, outcome |-> "none", exit |-> 0,
     ids |-> <<>>, clock |-> 0, returned |-> <<>>, loaded |-> <<>>,
     declared |-> <<>>, live |-> <<>>, pulled |-> <<>>]

\* directories whose up.sql the invocation executed and committed
CommittedBy(wire) ==
    {wire[i].mig : i \in {k \in DOMAIN wire :
        /\ wire[k].cmd = "EXEC" /\ wire[k].ok /\ wire[k].mig # NoDir
        /\ (wire[k].in_txn =>
               k < Len(wire) /\ wire[k + 1].cmd = "COMMIT")}}

----------------------------------------------------------------------------
(* sync *)

\* the checksum dedup of sync, were it to pass over applied migrations
DuplicateChecksumUnapplied(existing_migrations, diff_checksum, force) ==
    /\ ~force
    /\ \E i \in DOMAIN existing_migrations :
          /\ existing_migrations[i].checksum = diff_checksum
          /\ existing_migrations[i].status # "applied"

\* the checksum dedup of sync: some existing migration has the checksum
DuplicateChecksum(existing_migrations, diff_checksum, force) ==
    /\ ~force
    /\ \E i \in DOMAIN existing_migrations :
          existing_migrations[i].checksum = diff_checksum

\* the apply step of sync, were the Err arm to exit without client.rollback()
SyncApplyNoRollback(sess, up_sql, mig, reject) ==
    LET executed == Execute(Begin(sess), up_sql, mig, reject)
    IN IF LastOk(executed) THEN Commit(executed) ELSE executed

\* the apply step of sync
SyncApply(sess, up_sql, mig, reject) ==
    LET executed == Execute(Begin(sess), up_sql, mig, reject)
    IN IF LastOk(executed) THEN Commit(executed) ELSE Rollback(executed)

\* sync, were --dry-run not to stop it before the apply step
SkipsApplyNever(dry_run) == FALSE

\* if dry_run { return }
SkipsApply(dry_run) == dry_run

\* no invocation is running: they run one at a time, each to completion
Idle == last.cmd = "none"

Finish(invocation, sess, dir) ==
    /\ db' = sess.live
    /\ store' = dir
    /\ committed' = committed \cup CommittedBy(sess.wire)
    /\ last' = [invocation EXCEPT !.before = db, !.wire = sess.wire]

Sync ==
    /\ Idle
    /\ \E schema \in Documents, force \in BOOLEAN, dry_run \in BOOLEAN :
       \E existing_migrations \in load_migrations(store) :
       \E diff \in compare_schemas(schema, db) :
         LET client == Connect(db)
             inv == [NoInvocation EXCEPT !.cmd = "sync", !.force = force,
                        !.dry_run = dry_run, !.schema = schema,
                        !.introspected = db, !.diff = diff]
             diff_checksum == checksum(diff.sql)
         IN IF ~has_changes(diff)
            THEN Finish([inv EXCEPT !.outcome = "in_sync"], client, store)
            ELSE IF DuplicateChecksum(existing_migrations, diff_checksum, force)
            THEN Finish([inv EXCEPT !.outcome = "duplicate"], client, store)
            ELSE
              \E name \in RawNames, random_suffix \in RandVals :
                LET up_sql == diff.sql
                    down_sql == generate_rollback(diff)
                    dir == create_migration(store, name, up_sql, down_sql,
                                            diff_checksum, Now, random_suffix)
                    mig == CreatedDir(name, Now, random_suffix)
                    created == [inv EXCEPT !.created = mig]
                IN /\ Cardinality(DOMAIN dir) <= MaxMigrations
                   /\ IF SkipsApply(dry_run)
                      THEN Finish([created EXCEPT !.outcome = "dry_run"], client, dir)
                      ELSE \E rejected \in BOOLEAN :
                             LET done == SyncApply(client, up_sql, mig,
                                                   RejectAt(up_sql, rejected))
                             IN IF Committed(done)
                                THEN Finish([created EXCEPT !.outcome = "applied"],
                                                done, dir)
                                ELSE Finish([created EXCEPT !.outcome = "apply_failed",
                                                                !.exit = 1],
                                                done, dir)

----------------------------------------------------------------------------
(* deploy *)

\* .filter(|m| !m.applied && m.meta.status != "failed")
IsPending(m) == ~m.applied /\ m.status # "failed"

\* the production guard of deploy, were it to compare the name as given
NeedsConfirmationAsGiven(env_name, yes) ==
    env_name = "production" /\ ~yes

\* the production guard of deploy
NeedsConfirmation(env_name, yes) ==
    ToLowercase(env_name) = "production" /\ ~yes

\* the apply loop of deploy, were the Err arm to go on without break
RECURSIVE DeployLoopNoBreak(_, _, _, _)
DeployLoopNoBreak(sess, pending_migrations, i, rejected) ==
    IF i > Len(pending_migrations) THEN [sess |-> sess, failed |-> FALSE]
    ELSE LET m == pending_migrations[i]
             executed == Execute(Begin(sess), m.up_sql, m.dir,
                                 RejectAt(m.up_sql, i = rejected))
         IN IF LastOk(executed)
            THEN DeployLoopNoBreak(Commit(executed), pending_migrations,
                                   i + 1, rejected)
            ELSE [sess |-> DeployLoopNoBreak(Rollback(executed), pending_migrations,
                                             i + 1, rejected).sess,
                  failed |-> TRUE]

\* the apply loop of deploy from the i-th pending migration on; the server
\* rejects the last statement of pending migration number rejected
RECURSIVE DeployLoop(_, _, _, _)
DeployLoop(sess, pending_migrations, i, rejected) ==
    IF i > Len(pending_migrations) THEN [sess |-> sess, failed |-> FALSE]
    ELSE LET m == pending_migrations[i]
             executed == Execute(Begin(sess), m.up_sql, m.dir,
                                 RejectAt(m.up_sql, i = rejected))
         IN IF LastOk(executed)
            THEN DeployLoop(Commit(executed), pending_migrations, i + 1, rejected)
            ELSE [sess |-> Rollback(executed), failed |-> TRUE]

Deploy ==
    /\ Idle
    /\ \E env \in Envs, yes \in BOOLEAN :
       \E migrations \in load_migrations(store) :
         LET pending_migrations == SelectSeq(migrations, IsPending)
             inv == [NoInvocation EXCEPT !.cmd = "deploy", !.env = env, !.yes = yes]
         IN IF pending_migrations = <<>>
            THEN Finish([inv EXCEPT !.outcome = "no_pending"], Connect(db), store)
            ELSE IF NeedsConfirmation(env, yes)
            THEN Finish([inv EXCEPT !.outcome = "needs_yes", !.exit = 1],
                        Connect(db), store)
            ELSE \E rejected \in 0..Len(pending_migrations) :
                   LET done == DeployLoop(Connect(db), pending_migrations, 1, rejected)
                   IN IF done.failed
                      THEN Finish([inv EXCEPT !.outcome = "deploy_failed", !.exit = 1],
                                  done.sess, store)
                      ELSE Finish([inv EXCEPT !.outcome = "deployed"], done.sess, store)

----------------------------------------------------------------------------
(* db push *)

\* --force-reset: DROP TABLE for each table of the schema document, a failure
\* being printed and passed over
RECURSIVE ForceReset(_, _)
ForceReset(sess, tables) ==
    IF tables = <<>> THEN sess
    ELSE ForceReset(Execute(sess, <<DropTableSql(Head(tables))>>, NoDir, 0),
                    Tail(tables))

\* the data-loss check of db push, were it to let every diff through
DataLossAbortNever(diff, accept_data_loss) == FALSE

\* the data-loss check of db push
DataLossAbort(diff, accept_data_loss) ==
    diff.data_loss_warning # <<>> /\ ~accept_data_loss

\* the apply step of db push
PushApply(sess, sql, reject) ==
    LET executed == Execute(Begin(sess), sql, NoDir, reject)
    IN IF LastOk(executed) THEN Commit(executed) ELSE Rollback(executed)

Push(documents) ==
    /\ Idle
    /\ \E schema \in documents, accept_data_loss \in BOOLEAN, force_reset \in BOOLEAN :
       \E tables \in Perms(DOMAIN schema) :
         LET client == IF force_reset THEN ForceReset(Connect(db), tables)
                       ELSE Connect(db)
         IN \E diff \in compare_schemas(schema, client.live) :
              LET inv == [NoInvocation EXCEPT !.cmd = "db push",
                             !.accept_data_loss = accept_data_loss,
                             !.force_reset = force_reset, !.schema = schema,
                             !.introspected = client.live, !.diff = diff]
              IN IF ~has_changes(diff)
                 THEN Finish([inv EXCEPT !.outcome = "in_sync"], client, store)
                 ELSE IF DataLossAbort(diff, accept_data_loss)
                 THEN Finish([inv EXCEPT !.outcome = "data_loss", !.exit = 1],
                             client, store)
                 ELSE IF diff.sql = <<>>
                 THEN Finish([inv EXCEPT !.outcome = "no_ddl"], client, store)
                 ELSE \E rejected \in BOOLEAN :
                        LET done == PushApply(client, diff.sql,
                                              RejectAt(diff.sql, rejected))
                        IN IF Committed(done)
                           THEN Finish([inv EXCEPT !.outcome = "pushed"], done, store)
                           ELSE Finish([inv EXCEPT !.outcome = "push_failed",
                                                   !.exit = 1], done, store)

DbPush == Push(Documents)

\* db push of a document that declares a table under a mixed-case name
DbPushMixedCase == Push(MixedCaseDocuments)

----------------------------------------------------------------------------
(* migrate dev *)

\* the apply loop of migrate dev from the i-th migration on
RECURSIVE DevLoop(_, _, _, _)
DevLoop(sess, migrations, i, rejected) ==
    IF i > Len(migrations) THEN [sess |-> sess, failed |-> FALSE]
    ELSE LET m == migrations[i]
             executed == Execute(sess, m.up_sql, m.dir,
                                 RejectAt(m.up_sql, i = rejected))
         IN IF LastOk(executed)
            THEN DevLoop(executed, migrations, i + 1, rejected)
            ELSE [sess |-> executed, failed |-> TRUE]

MigrateDev ==
    /\ Idle
    /\ \E schema \in Documents, create_only \in BOOLEAN :
       \E name \in RawNames, random_suffix \in RandVals :
         LET inv == [NoInvocation EXCEPT !.cmd = "migrate dev",
                        !.create_only = create_only]
             mig == CreatedDir(name, Now, random_suffix)
         IN IF create_only
            THEN LET dir == create_migration(store, name, <<CommentSql("empty")>>,
                                             <<CommentSql("empty")>>, NoChecksum,
                                             Now, random_suffix)
                 IN /\ Cardinality(DOMAIN dir) <= MaxMigrations
                    /\ Finish([inv EXCEPT !.created = mig, !.outcome = "created_only"],
                              Connect(db), dir)
            ELSE \E diff \in compare_schemas(schema, db) :
              LET found == [inv EXCEPT !.introspected = db, !.diff = diff]
              IN IF ~has_changes(diff)
                 THEN Finish([found EXCEPT !.outcome = "in_sync"], Connect(db), store)
                 ELSE
                   LET dir == create_migration(store, name, diff.sql,
                                  <<CommentSql("rollback")>> \o generate_rollback(diff),
                                  NoChecksum, Now, random_suffix)
                   IN /\ Cardinality(DOMAIN dir) <= MaxMigrations
                      /\ \E updated_migrations \in load_migrations(dir) :
                         \E rejected \in 0..Len(updated_migrations) :
                           LET done == DevLoop(Connect(db),
                                           SelectSeq(updated_migrations,
                                                     LAMBDA m : ~m.applied),
                                           1, rejected)
                           IN IF done.failed
                              THEN Finish([found EXCEPT !.created = mig,
                                              !.outcome = "dev_failed", !.exit = 1],
                                          done.sess, dir)
                              ELSE Finish([found EXCEPT !.created = mig,
                                              !.outcome = "dev_applied"],
                                          done.sess, dir)

----------------------------------------------------------------------------
(* migrate reset *)

\* migrate reset prints what a reset would do and returns
MigrateReset ==
    /\ Idle
    /\ Finish([NoInvocation EXCEPT !.cmd = "migrate reset", !.outcome = "printed"],
              Connect(db), store)

----------------------------------------------------------------------------

\* a migration directory as an earlier run wrote it and a review or an
\* operator marked it
Prepared(name, random_suffix, status, up_sql, down_sql) ==
    LET dir == create_migration(<<>>, name, up_sql, down_sql, checksum(up_sql),
                                Earlier, random_suffix)
    IN [d \in DOMAIN dir |-> [dir[d] EXCEPT !.status = status]]

Merge(f, g) == [d \in DOMAIN f \cup DOMAIN g |-> IF d \in DOMAIN f THEN f[d] ELSE g[d]]

CreateA == CHOOSE s \in generate_create_table_sql("a", {"x"}) : TRUE

\* the migrations directory at the start: empty, or one migration of some
\* status, or two migrations made in the same second with the same suffix
InitStores ==
    {<<>>}
    \cup {Prepared("add-a", 2, status, <<CreateA>>, <<DropTableSql("a")>>) :
             status \in Statuses}
    \cup {Merge(Prepared("add-a", 2, "draft", <<CreateA>>, <<DropTableSql("a")>>),
                Prepared("fix b", 2, "draft", <<AddColumnSql("a", "id")>>,
                         <<DropColumnSql("a", "id")>>))}

Init ==
    /\ db = EmptyCatalog
    /\ store \in InitStores
    /\ committed = {}
    /\ last = NoInvocation

\* the process of the invocation exits
Exit ==
    /\ ~Idle
    /\ last' = NoInvocation
    /\ UNCHANGED <<db, store, committed>>

Next == Sync \/ Deploy \/ DbPush \/ Exit

Spec == Init /\ [][Next]_vars

\* the same with migrate dev and migrate reset among the invocations
NextAll == Next \/ MigrateDev \/ MigrateReset

SpecAll == Init /\ [][NextAll]_vars

----------------------------------------------------------------------------
(* The store as a library: a process that calls create_migration and        *)
(* load_migrations on a migrations directory                                *)

MaxCalls == 2        \* calls of create_migration one process makes
LibNames == {"Add_A", "fix b"}
LibSql == {<<CreateA>>}

\* a directory without meta.json, as an unpacked archive or an interrupted
\* create_migration leaves it
StrayDir(name, up_sql) ==
    [d \in {DirName(<<>>, name)} |->
        [MigrationFiles(<<>>, name, NoChecksum, "draft", up_sql, <<>>)
            EXCEPT !.has_meta = FALSE]]

\* the Migration create_migration returns
Created(name, up_sql, down_sql, sum, timestamp, random_suffix) ==
    [id |-> FormatId(timestamp, random_suffix), name |-> FormatName(name),
     checksum |-> sum, status |-> "draft", up_sql |-> up_sql,
     down_sql |-> down_sql, applied |-> FALSE, applied_at |-> "None"]

LibInitStores ==
    InitStores
    \cup {StrayDir("tmp", <<CreateA>>)}
    \cup {Merge(st, StrayDir("tmp", <<CreateA>>)) : st \in InitStores \ {<<>>}}

LibInit ==
    /\ db = EmptyCatalog
    /\ store \in LibInitStores
    /\ committed = {}
    /\ last = NoInvocation

\* the process calls create_migration; its clock does not go back
LibCreate ==
    /\ last.cmd \in {"none", "lib"}
    /\ Len(last.ids) < MaxCalls
    /\ \E name \in LibNames, up_sql \in LibSql, random_suffix \in RandVals,
          timestamp \in {Earlier, Now}, with_sum \in BOOLEAN :
         LET sum == IF with_sum THEN checksum(up_sql) ELSE NoChecksum
             dir == create_migration(store, name, up_sql, <<>>, sum,
                                     timestamp, random_suffix)
         IN /\ timestamp >= last.clock
            /\ Cardinality(DOMAIN dir) <= MaxMigrations + 1
            /\ store' = dir
            /\ last' = [last EXCEPT
                          !.cmd = "lib", !.outcome = "created",
                          !.created = CreatedDir(name, timestamp, random_suffix),
                          !.returned = Created(name, up_sql, <<>>, sum,
                                               timestamp, random_suffix),
                          !.ids = Append(@, FormatId(timestamp, random_suffix)),
                          !.clock = timestamp,
                          !.loaded = <<>>]
    /\ UNCHANGED <<db, committed>>

\* the process calls load_migrations
LibLoad ==
    /\ last.cmd \in {"none", "lib"}
    /\ last.outcome # "loaded"
    /\ \E ms \in load_migrations(store) :
         last' = [last EXCEPT !.cmd = "lib", !.outcome = "loaded", !.loaded = ms]
    /\ UNCHANGED <<db, store, committed>>

NextLib == LibCreate \/ LibLoad \/ Exit

SpecLib == LibInit /\ [][NextLib]_vars

----------------------------------------------------------------------------
(* The diff engine as a library: compare_schemas called on a declared and a  *)
(* live schema                                                               *)

Types == {"text", "integer"}   \* data types column x may have
EnumNames == {"mood"}

\* a declared schema (Schema) and a live schema (DbSchema): the tables with
\* their columns, the data type of column x wherever it occurs, and the enums
DeclaredSchemas == [tables : Schemas, x_type : Types, enums : SUBSET EnumNames]
LiveSchemas == [tables : Catalogs, x_type : Types, enums : SUBSET EnumNames]

\* compare_schemas on the whole schemas: it reads the keys of tables and of
\* their columns, and nothing else of either schema
CompareWhole(json_schema, db_schema) ==
    compare_schemas(json_schema.tables, db_schema.tables)

\* a call of compare_schemas
Compare ==
    /\ Idle
    /\ \E json_schema \in DeclaredSchemas, db_schema \in LiveSchemas :
       \E diff \in CompareWhole(json_schema, db_schema) :
         last' = [NoInvocation EXCEPT !.cmd = "compare", !.declared = json_schema,
                     !.live = db_schema, !.diff = diff]
    /\ UNCHANGED <<db, store, committed>>

\* the values of a SchemaDiff collection: empty or not
SomeTables == {<<>>, <<"a">>}
SomeColumns == {<<>>, <<[table |-> "a", columns |-> <<>>]>>,
                <<[table |-> "a", columns |-> <<"x">>]>>}
SomeEnums == {<<>>, <<"mood">>}
SomeWarnings == {<<>>, <<TableWarning("a")>>}

SchemaDiffs ==
    [create_tables : SomeTables, alter_tables : SomeTables, drop_tables : SomeTables,
     create_columns : SomeColumns, alter_columns : SomeColumns,
     drop_columns : SomeColumns, create_enums : SomeEnums, drop_enums : SomeEnums,
     data_loss_warning : SomeWarnings, sql : {<<>>}]

\* a call of has_changes on a SchemaDiff
HasChanges ==
    /\ Idle
    /\ \E diff \in SchemaDiffs :
         last' = [NoInvocation EXCEPT !.cmd = "has_changes", !.diff = diff,
                     !.outcome = IF has_changes(diff) THEN "changes"
                                 ELSE "no_changes"]
    /\ UNCHANGED <<db, store, committed>>

DiffInit ==
    /\ db = EmptyCatalog
    /\ store = <<>>
    /\ committed = {}
    /\ last = NoInvocation

NextDiff == Compare \/ HasChanges \/ Exit

SpecDiff == DiffInit /\ [][NextDiff]_vars

----------------------------------------------------------------------------
(* db pull, and db push of the file it wrote *)

NoFile == <<>>

\* a DbColumn as serde_json writes it: one key for each field of the struct
DbColumnJson(col) ==
    [name |-> col, data_type |-> "text", is_nullable |-> ~is_not_null(col),
     is_primary_key |-> is_primary_key(col), default_value |-> "null",
     size |-> "null"]

\* serde_json::to_string_pretty(&db_schema): the DbSchema as JSON
ToStringPretty(db_schema) ==
    [tables |-> [t \in DOMAIN db_schema |->
                    [name |-> t,
                     columns |-> [c \in db_schema[t] |-> DbColumnJson(c)],
                     primary_key |-> {c \in db_schema[t] : is_primary_key(c)}]],
     enums |-> <<>>,
     dialect |-> "postgresql"]

\* the keys a JSON object must have to be read as a Column, a Table, a
\* Schema: the fields that are neither Option nor #[serde(default)], under
\* their serde names
ColumnKeys == {"name", "type"}
TableKeys == {"columns"}
SchemaKeys == {"tables"}

\* serde_json::from_str::<Schema>(&schema_str): Err when a key is missing,
\* else the tables with their columns; keys no field has are passed over
FromStr(file) ==
    IF /\ SchemaKeys \subseteq DOMAIN file
       /\ \A t \in DOMAIN file.tables :
             /\ TableKeys \subseteq DOMAIN file.tables[t]
             /\ \A c \in DOMAIN file.tables[t].columns :
                   ColumnKeys \subseteq DOMAIN file.tables[t].columns[c]
    THEN [ok |-> TRUE,
          schema |-> [t \in DOMAIN file.tables |-> DOMAIN file.tables[t].columns]]
    ELSE [ok |-> FALSE, schema |-> EmptyCatalog]

\* stratus db pull: the introspected schema is written to the output file
DbPull ==
    /\ Idle
    /\ LET client == Connect(db)
       IN Finish([NoInvocation EXCEPT !.cmd = "db pull", !.introspected = client.live,
                     !.pulled = ToStringPretty(client.live), !.outcome = "pulled"],
                 client, store)

\* stratus db push --schema <the file db pull wrote>, without --force-reset,
\* run next
DbPushPulled ==
    /\ last.cmd = "db pull"
    /\ last.outcome = "pulled"
    /\ LET parsed == FromStr(last.pulled)
           read == [NoInvocation EXCEPT !.cmd = "db push", !.pulled = last.pulled]
       IN IF ~parsed.ok
          THEN Finish([read EXCEPT !.outcome = "parse_failed", !.exit = 101],
                      Connect(db), store)
          ELSE \E accept_data_loss \in BOOLEAN :
               \E diff \in compare_schemas(parsed.schema, Connect(db).live) :
                 LET client == Connect(db)
                     inv == [read EXCEPT !.accept_data_loss = accept_data_loss,
                                !.schema = parsed.schema,
                                !.introspected = client.live, !.diff = diff]
                 IN IF ~has_changes(diff)
                    THEN Finish([inv EXCEPT !.outcome = "in_sync"], client, store)
                    ELSE IF DataLossAbort(diff, accept_data_loss)
                    THEN Finish([inv EXCEPT !.outcome = "data_loss", !.exit = 1],
                                client, store)
                    ELSE LET done == PushApply(client, diff.sql, 0)
                         IN IF Committed(done)
                            THEN Finish([inv EXCEPT !.outcome = "pushed"], done, store)
                            ELSE Finish([inv EXCEPT !.outcome = "push_failed",
                                                    !.exit = 1], done, store)

NextPull == DbPull \/ DbPushPulled \/ DbPush \/ Exit

SpecPull == Init /\ [][NextPull]_vars

----------------------------------------------------------------------------
(* create_migration, one file-system call after the other *)

\* the up.sql texts create_migration is given
StepSql == {<<CreateA>>, <<AddColumnSql("a", "id")>>}

\* the store dir with the files of directory d replaced by files
WithDir(dir, d, files) ==
    [e \in DOMAIN dir \cup {d} |-> IF e = d THEN files ELSE dir[e]]

\* fs::create_dir_all(&migration_dir): a directory that exists is left as it is
CreateDirAll ==
    /\ Idle
    /\ \E name \in RawNames, up_sql \in StepSql, random_suffix \in RandVals,
          timestamp \in {Now} :
         LET migration_dir == CreatedDir(name, timestamp, random_suffix)
             dir == IF migration_dir \in DOMAIN store THEN store
                    ELSE Merge(store, [d \in {migration_dir} |->
                                 [MigrationFiles(<<>>, "", NoChecksum, "draft",
                                                 <<>>, <<>>)
                                     EXCEPT !.has_meta = FALSE]])
         IN /\ Cardinality(DOMAIN dir) <= MaxMigrations + 1
            /\ store' = dir
            /\ last' = [NoInvocation EXCEPT
                          !.cmd = "create", !.outcome = "dir",
                          !.created = migration_dir,
                          !.returned = Created(name, up_sql, <<>>, checksum(up_sql),
                                               timestamp, random_suffix)]
    /\ UNCHANGED <<db, committed>>

\* fs::write(&up_path, up_sql)
WriteUp ==
    /\ last.cmd = "create"
    /\ last.outcome = "dir"
    /\ store' = WithDir(store, last.created,
                        [store[last.created] EXCEPT !.up_sql = last.returned.up_sql])
    /\ last' = [last EXCEPT !.outcome = "up"]
    /\ UNCHANGED <<db, committed>>

\* fs::write(&down_path, down_sql)
WriteDown ==
    /\ last.cmd = "create"
    /\ last.outcome = "up"
    /\ store' = WithDir(store, last.created,
                        [store[last.created] EXCEPT !.down_sql = last.returned.down_sql])
    /\ last' = [last EXCEPT !.outcome = "down"]
    /\ UNCHANGED <<db, committed>>

\* fs::write(&meta_path, meta_json), and create_migration returns
WriteMeta ==
    /\ last.cmd = "create"
    /\ last.outcome = "down"
    /\ store' = WithDir(store, last.created,
                        MigrationFiles(last.returned.id, last.returned.name,
                                       last.returned.checksum, "draft",
                                       store[last.created].up_sql,
                                       store[last.created].down_sql))
    /\ last' = [last EXCEPT !.outcome = "created"]
    /\ UNCHANGED <<db, committed>>

\* the next fs::write fails and create_migration returns Err, or the process
\* stops: the directory stays as it is; created, returned and outcome keep
\* what was being written and the last step done
Stop ==
    /\ last.cmd = "create"
    /\ last.outcome \in {"dir", "up", "down"}
    /\ last' = [NoInvocation EXCEPT !.created = last.created,
                   !.returned = last.returned, !.outcome = last.outcome,
                   !.exit = 1]
    /\ UNCHANGED <<db, store, committed>>

NextStep ==
    CreateDirAll \/ WriteUp \/ WriteDown \/ WriteMeta \/ Stop \/ LibLoad \/ Deploy \/ Exit

\* before the first migration is created
StepInit ==
    /\ db = EmptyCatalog
    /\ store = <<>>
    /\ committed = {}
    /\ last = NoInvocation

SpecStep == StepInit /\ [][NextStep]_vars

\* deploy alone, one invocation after the other
NextDeploy == Deploy \/ Exit

SpecDeploy == LibInit /\ [][NextDeploy]_vars

\* db push alone, given documents of either kind
NextPush == DbPush \/ DbPushMixedCase \/ Exit

SpecPush == Init /\ [][NextPush]_vars

----------------------------------------------------------------------------
(* What the last invocation sent *)

Wire == last.wire
Cmds == [i \in DOMAIN Wire |-> Wire[i].cmd]
IsExec(i) == Wire[i].cmd = "EXEC"
FailedExecs == {i \in DOMAIN Wire : IsExec(i) /\ ~Wire[i].ok}
IdOf(dir) == dir[1]

----------------------------------------------------------------------------
(* sync: the apply step *)

SyncBatchFailed == last.cmd = "sync" /\ FailedExecs # {}

\* C1: when a statement of the up SQL batch of sync fails, sync sends
\* ROLLBACK after it, and the tables and columns of the live database are
\* those it had before BEGIN
C1_SyncFailureRollsBack ==
    SyncBatchFailed =>
        /\ Cmds = <<"BEGIN", "EXEC", "ROLLBACK">>
        /\ db = last.before

\* a sync whose batch failed after its first statement had changed the
\* catalogue
C1_Witness ==
    /\ SyncBatchFailed
    /\ Len(last.diff.sql) >= 2
    /\ ExecStmt(last.before, last.diff.sql[1]).ok
    /\ ExecStmt(last.before, last.diff.sql[1]).cat # last.before

\* C2: when the apply step of sync fails and is rolled back, the meta.json of
\* the migration sync just wrote has status failed
C2_FailedSyncMarksFailed ==
    SyncBatchFailed =>
        /\ last.created \in DOMAIN store
        /\ store[last.created].status = "failed"

\* C3: when the apply step of sync commits, the meta.json of the migration
\* sync just wrote has status applied and an applied-at timestamp
C3_AppliedSyncMarksApplied ==
    (last.cmd = "sync" /\ last.outcome = "applied") =>
        /\ last.created \in DOMAIN store
        /\ store[last.created].status = "applied"
        /\ store[last.created].applied_at # "None"

----------------------------------------------------------------------------
(* deploy *)

\* C4: deploy executes no migration whose meta.json status is applied or
\* failed
C4_DeploySkipsAppliedAndFailed ==
    last.cmd = "deploy" =>
        \A i \in DOMAIN Wire :
            IsExec(i) => store[Wire[i].mig].status \notin {"applied", "failed"}

\* C5: a deploy executes no migration whose id is less than the id of a
\* migration already committed on the database, by an earlier invocation or
\* earlier in this one
C5_DeployNeverBehindApplied ==
    [][(Idle /\ last'.cmd = "deploy") =>
          \A i \in DOMAIN last'.wire :
              last'.wire[i].cmd = "EXEC" =>
                  /\ \A d \in committed :
                        ~StrLess(IdOf(last'.wire[i].mig), IdOf(d))
                  /\ \A j \in 1..(i - 1) :
                        (last'.wire[j].cmd = "EXEC" /\ last'.wire[j].ok) =>
                            ~StrLess(IdOf(last'.wire[i].mig),
                                     IdOf(last'.wire[j].mig))]_vars

\* C6: within one deploy each migration executed has an id greater than the
\* id of the migration executed before it
C6_DeployStrictlyAscending ==
    last.cmd = "deploy" =>
        \A i, j \in DOMAIN Wire :
            (IsExec(i) /\ IsExec(j) /\ i < j) =>
                StrLess(IdOf(Wire[i].mig), IdOf(Wire[j].mig))

DeployFailed == last.cmd = "deploy" /\ FailedExecs # {}

\* C7: a deploy stops at the first migration whose up SQL fails: ROLLBACK
\* follows the failed batch and is the last thing sent, the rollback leaves
\* the catalogue as it was at that BEGIN, every batch before it was committed
\* with its effect, and the database is left as the last COMMIT left it
C7_DeployStopsAtFirstFailure ==
    DeployFailed =>
        LET n == Len(Wire)
            f == CHOOSE i \in FailedExecs : \A k \in FailedExecs : i <= k
        IN /\ n = f + 1
           /\ Wire[n].cmd = "ROLLBACK"
           /\ Wire[f - 1].cmd = "BEGIN"
           /\ Wire[n].seen = Wire[f - 1].seen
           /\ \A k \in 1..(f - 1) :
                 IsExec(k) =>
                     /\ Wire[k + 1].cmd = "COMMIT"
                     /\ Wire[k + 1].seen =
                            RunBatch(Wire[k - 1].seen, Wire[k].sql, 1, 0).cat
           /\ db = IF f > 2 THEN Wire[f - 2].seen ELSE last.before

\* a deploy that committed a migration, changing the database, and then
\* failed on the next one
C7_Witness ==
    /\ DeployFailed
    /\ \E i \in DOMAIN Wire : Wire[i].cmd = "COMMIT"
    /\ db # last.before

----------------------------------------------------------------------------
(* transactions and data loss *)

\* C8: every DDL batch an invocation sends is sent inside a transaction:
\* BEGIN before it, and COMMIT after it when it succeeded, ROLLBACK when not
C8_DdlOnlyInTransactions ==
    \A i \in DOMAIN Wire :
        IsExec(i) =>
            /\ Wire[i].in_txn
            /\ i > 1 /\ Wire[i - 1].cmd = "BEGIN"
            /\ i < Len(Wire)
            /\ Wire[i + 1].cmd = IF Wire[i].ok THEN "COMMIT" ELSE "ROLLBACK"

\* C9: no invocation executes the SQL of a diff that carries data-loss
\* warnings unless it was given --accept-data-loss (db push) or --force (sync)
C9_NoDataLossWithoutAcceptance ==
    \A i \in DOMAIN Wire :
        (IsExec(i) /\ last.diff.data_loss_warning # <<>>
                   /\ Wire[i].sql = last.diff.sql) =>
            \/ last.cmd = "db push" /\ last.accept_data_loss
            \/ last.cmd = "sync" /\ last.force

PushWithUnacceptedLoss ==
    /\ last.cmd = "db push"
    /\ last.diff.data_loss_warning # <<>>
    /\ ~last.accept_data_loss

\* C10: a db push whose diff has a data-loss warning and that was not given
\* --accept-data-loss exits with failure without sending BEGIN or the SQL of
\* the diff, and leaves the database as it introspected it
C10_PushAbortsOnDataLoss ==
    PushWithUnacceptedLoss =>
        /\ last.exit = 1
        /\ \A i \in DOMAIN Wire :
              /\ Wire[i].cmd # "BEGIN"
              /\ ~(IsExec(i) /\ Wire[i].sql = last.diff.sql)
        /\ (~last.force_reset => Wire = <<>>)
        /\ db = last.introspected

\* such a db push, for a dropped table and for a dropped column
C10_Witness ==
    /\ PushWithUnacceptedLoss
    /\ last.outcome = "data_loss"
    /\ last.diff.drop_tables # <<>> \/ last.diff.drop_columns # <<>>

----------------------------------------------------------------------------
(* deploy to production, dry runs, idempotence and the checksum dedup *)

ProductionWithoutYes ==
    /\ last.cmd = "deploy"
    /\ ToLowercase(last.env) = "production"
    /\ ~last.yes

\* C11: a deploy whose environment is production, in whatever case it is
\* written, and that was not given --yes sends nothing to the database and
\* leaves it as it was
C11_ProductionNeedsYes ==
    ProductionWithoutYes =>
        /\ last.wire = <<>>
        /\ db = last.before

\* such a deploy, with the name written with a capital and migrations pending
C11_Witness ==
    /\ ProductionWithoutYes
    /\ last.env # "production"
    /\ last.outcome = "needs_yes"
    /\ \E ms \in load_migrations(store) : SelectSeq(ms, IsPending) # <<>>

\* some migration of the store st has the checksum of the SQL text sql
HasChecksum(st, sql) ==
    \E d \in DOMAIN st : st[d].has_meta /\ st[d].checksum = checksum(sql)

C13_ReconcileIdempotent ==
    (/\ last.cmd \in {"sync", "db push"}
     /\ last.outcome \in {"applied", "pushed"}) =>
        \A again \in compare_schemas(last.schema, db) : ~has_changes(again)

\* C14: a sync without --force whose diff has the checksum of some migration
\* of the store, whatever the status of that migration, leaves the store as
\* it was, sends nothing to the database and exits with success
C14_DuplicateChecksumStops ==
    [][(/\ Idle
        /\ last'.cmd = "sync"
        /\ ~last'.force
        /\ HasChecksum(store, last'.diff.sql)) =>
          /\ store' = store
          /\ last'.created = NoDir
          /\ last'.wire = <<>>
          /\ db' = db
          /\ last'.exit = 0]_vars

\* a sync stopped by the checksum of a migration whose status is applied
C14_Witness ==
    /\ last.cmd = "sync"
    /\ last.outcome = "duplicate"
    /\ has_changes(last.diff)
    /\ \E d \in DOMAIN store :
          /\ store[d].checksum = checksum(last.diff.sql)
          /\ store[d].status = "applied"

\* C15: when the store holds a migration that a sync persisted for the delta
\* between a schema document and a database, a sync of the same document
\* against the same database without --force is stopped as a duplicate and
\* creates no migration
C15_SameDeltaDeduplicated ==
    (/\ last.cmd = "sync"
     /\ ~last.force
     /\ has_changes(last.diff)
     /\ \E d \in DOMAIN store \ {last.created} :
           /\ store[d].checksum = checksum(store[d].up_sql)
           /\ \E delta \in compare_schemas(last.schema, last.introspected) :
                 delta.sql = store[d].up_sql) =>
        /\ last.outcome = "duplicate"
        /\ last.created = NoDir

\* C16: a sync with --force whose diff has the checksum of migrations of the
\* store creates a directory that was not there, under an id no migration of
\* the store has, with the up.sql and down.sql of those migrations
C16_ForceCreatesFreshCopy ==
    [][(/\ Idle
        /\ last'.cmd = "sync"
        /\ last'.force
        /\ has_changes(last'.diff)
        /\ HasChecksum(store, last'.diff.sql)) =>
          /\ last'.created \in DOMAIN store' \ DOMAIN store
          /\ \A d \in DOMAIN store :
                /\ store[d].id # store'[last'.created].id
                /\ store[d].checksum = checksum(last'.diff.sql) =>
                      /\ store'[last'.created].up_sql = store[d].up_sql
                      /\ store'[last'.created].down_sql = store[d].down_sql]_vars

----------------------------------------------------------------------------
(* migrate reset *)

\* the tables that some migration of the store st creates
CreatedByMigrations(st) ==
    UNION {{Fold(st[d].up_sql[k].table) :
               k \in {n \in DOMAIN st[d].up_sql :
                         st[d].up_sql[n].op = "CREATE TABLE"}} :
           d \in {e \in DOMAIN st : st[e].has_meta}}

\* C17: migrate reset sends a DROP TABLE for every table the database had,
\* then executes the up SQL of every migration of the store, and leaves no
\* table that was there before unless a migration creates it
C17_ResetDropsAndReplays ==
    last.cmd = "migrate reset" =>
        /\ \A t \in DOMAIN last.before :
              \E i \in DOMAIN Wire :
                 IsExec(i) /\ Wire[i].sql = <<DropTableSql(t)>>
        /\ \A d \in DOMAIN store :
              store[d].has_meta => \E i \in DOMAIN Wire : Wire[i].mig = d
        /\ DOMAIN last.before \cap DOMAIN db \subseteq CreatedByMigrations(store)

----------------------------------------------------------------------------
(* The store *)

\* C18: after create_migration has written a migration, load_migrations on
\* the directory returns, once, a migration with the id, name, up SQL, down
\* SQL and checksum of the one create_migration returned, with status draft
C18_StoreRoundTrip ==
    (last.cmd = "lib" /\ last.outcome = "loaded" /\ last.created # NoDir) =>
        /\ \E i \in DOMAIN last.loaded :
              /\ last.loaded[i].dir = last.created
              /\ last.loaded[i].id = last.returned.id
              /\ last.loaded[i].name = last.returned.name
              /\ last.loaded[i].up_sql = last.returned.up_sql
              /\ last.loaded[i].down_sql = last.returned.down_sql
              /\ last.loaded[i].checksum = last.returned.checksum
              /\ last.loaded[i].status = "draft"
        /\ Cardinality({i \in DOMAIN last.loaded :
                           last.loaded[i].dir = last.created}) = 1

\* a migration written with a checksum beside another one, then loaded
C18_Witness ==
    /\ last.cmd = "lib"
    /\ last.outcome = "loaded"
    /\ last.created # NoDir
    /\ last.returned.checksum # NoChecksum
    /\ last.returned.up_sql # <<>>
    /\ Len(last.loaded) >= 2

\* C19: the ids of the migrations one process creates, one after the other,
\* are strictly increasing in the order load_migrations sorts by
C19_IdsStrictlyIncreasing ==
    last.cmd = "lib" =>
        \A i, j \in DOMAIN last.ids :
            i < j => StrLess(last.ids[i], last.ids[j])

\* C20: load_migrations returns the migrations of the directories that hold a
\* meta.json, each once and with what its files hold, and no migration in
\* the result has a smaller id than one before it
C20_LoadReturnsSortedMetas ==
    (last.cmd = "lib" /\ last.outcome = "loaded") =>
        LET ms == last.loaded
            metas == {d \in DOMAIN store : store[d].has_meta}
        IN /\ {ms[i].dir : i \in DOMAIN ms} = metas
           /\ Len(ms) = Cardinality(metas)
           /\ \A i \in DOMAIN ms :
                 /\ ms[i].id = store[ms[i].dir].id
                 /\ ms[i].name = store[ms[i].dir].name
                 /\ ms[i].up_sql = store[ms[i].dir].up_sql
                 /\ ms[i].down_sql = store[ms[i].dir].down_sql
           /\ \A i, j \in DOMAIN ms : i < j => ~StrLess(ms[j].id, ms[i].id)

\* a load of a directory that holds a directory without meta.json and two
\* migrations of different ids
C20_Witness ==
    /\ last.cmd = "lib"
    /\ last.outcome = "loaded"
    /\ \E d \in DOMAIN store : ~store[d].has_meta
    /\ \E i, j \in DOMAIN last.loaded : last.loaded[i].id # last.loaded[j].id

\* the directories of the store st that hold a meta.json
WithMeta(st) == [d \in {e \in DOMAIN st : st[e].has_meta} |-> st[d]]

\* C21: when the migrations directory holds a subdirectory without meta.json,
\* load_migrations succeeds and returns what it returns of the directory
\* without that subdirectory; no migration of the result comes from it
C21_LoadSkipsDirWithoutMeta ==
    (/\ last.cmd = "lib"
     /\ last.outcome = "loaded"
     /\ \E d \in DOMAIN store : ~store[d].has_meta) =>
        /\ last.loaded \in load_migrations(WithMeta(store))
        /\ \A i \in DOMAIN last.loaded : store[last.loaded[i].dir].has_meta

\* a load of a directory that holds a directory without meta.json, with
\* up.sql in it, beside a migration
C21_Witness ==
    /\ last.cmd = "lib"
    /\ last.outcome = "loaded"
    /\ \E d \in DOMAIN store : ~store[d].has_meta /\ store[d].up_sql # <<>>
    /\ Len(last.loaded) >= 1

----------------------------------------------------------------------------
(* the lifecycle of a migration *)

\* the moves of a status the lifecycle has
StatusMoves ==
    {<<"draft", "reviewed">>, <<"reviewed", "applied">>,
     <<"draft", "failed">>, <<"reviewed", "failed">>}

\* C22: no step changes the status of a migration directory other than along
\* draft -> reviewed -> applied or draft/reviewed -> failed
C22_StatusOnlyMovesForward ==
    [][\A d \in DOMAIN store \cap DOMAIN store' :
          (store[d].has_meta /\ store'[d].has_meta) =>
              \/ store'[d].status = store[d].status
              \/ <<store[d].status, store'[d].status>> \in StatusMoves]_vars

\* C23: no step changes the id, name, up.sql, down.sql or checksum of a
\* migration that create_migration has written, nor removes it
C23_MigrationContentImmutable ==
    [][\A d \in DOMAIN store :
          store[d].has_meta =>
              /\ d \in DOMAIN store'
              /\ store'[d].id = store[d].id
              /\ store'[d].name = store[d].name
              /\ store'[d].up_sql = store[d].up_sql
              /\ store'[d].down_sql = store[d].down_sql
              /\ store'[d].checksum = store[d].checksum]_vars

----------------------------------------------------------------------------
(* compare_schemas *)

\* the tables both schemas of the last comparison have
InBoth == DOMAIN last.declared.tables \cap DOMAIN last.live.tables

\* the columns of table t of InBoth only the declared, only the live schema has
DeclaredOnly(t) == last.declared.tables[t] \ last.live.tables[t]
LiveOnly(t) == last.live.tables[t] \ last.declared.tables[t]

\* the sequence q holds each element of the set S once and nothing else
ListsOnce(q, S) == Range(q) = S /\ Len(q) = Cardinality(S)

\* the warnings of the last diff about column col of table t (col "" for the
\* table itself)
WarningsOf(t, col) ==
    {i \in DOMAIN last.diff.data_loss_warning :
        last.diff.data_loss_warning[i] = [table |-> t, col |-> col]}

\* column x is in table t of both schemas under different data types
XTypeDiffers(t) ==
    /\ t \in InBoth
    /\ "x" \in last.declared.tables[t] \cap last.live.tables[t]
    /\ last.declared.x_type # last.live.x_type

\* C24: comparing a schema with the live schema that has exactly its tables
\* and columns gives a diff without changes, without SQL and without warnings
C24_SameSchemaGivesEmptyDiff ==
    (last.cmd = "compare" /\ last.declared = last.live) =>
        /\ ~has_changes(last.diff)
        /\ last.diff.sql = <<>>
        /\ last.diff.data_loss_warning = <<>>

\* a schema of two tables, one with two columns and an enum, compared with
\* itself
C24_Witness ==
    /\ last.cmd = "compare"
    /\ last.declared = last.live
    /\ DOMAIN last.declared.tables = TableNames
    /\ \E t \in TableNames : last.declared.tables[t] = ColNames
    /\ last.declared.enums # {}

\* C25: when the diff of a comparison has no changes, the two schemas have
\* the same tables, the same columns in each, the same data type for every
\* shared column and the same enums
C25_NoChangesMeansEqual ==
    (last.cmd = "compare" /\ ~has_changes(last.diff)) =>
        /\ last.declared.tables = last.live.tables
        /\ \A t \in InBoth : ~XTypeDiffers(t)
        /\ last.declared.enums = last.live.enums

\* C26: a column both schemas have under different data types is in
\* alter_columns of its table, and the diff has changes
C26_ChangedColumnIsAltered ==
    last.cmd = "compare" =>
        \A t \in TableNames :
            XTypeDiffers(t) =>
                /\ \E i \in DOMAIN last.diff.alter_columns :
                      /\ last.diff.alter_columns[i].table = t
                      /\ "x" \in Range(last.diff.alter_columns[i].columns)
                /\ has_changes(last.diff)

\* C27: create_tables lists once each table only the declared schema has,
\* drop_tables lists once each table only the live schema has, each dropped
\* table has exactly one warning that names it, and a table of both schemas
\* is in neither list
C27_TablesClassified ==
    last.cmd = "compare" =>
        LET declared == DOMAIN last.declared.tables
            live == DOMAIN last.live.tables
        IN /\ ListsOnce(last.diff.create_tables, declared \ live)
           /\ ListsOnce(last.diff.drop_tables, live \ declared)
           /\ \A t \in live \ declared : Cardinality(WarningsOf(t, "")) = 1
           /\ \A t \in InBoth :
                 /\ t \notin Range(last.diff.create_tables)
                 /\ t \notin Range(last.diff.drop_tables)
                 /\ WarningsOf(t, "") = {}

\* a comparison that drops one table and keeps the other
C27_Witness ==
    /\ last.cmd = "compare"
    /\ last.diff.drop_tables # <<>>
    /\ InBoth # {}
    /\ last.diff.data_loss_warning # <<>>

\* the entries of the column map m: one for each table of T, holding once
\* each column Items gives for it
ColumnsClassified(m, T, Items(_)) ==
    /\ ListsOnce([i \in DOMAIN m |-> m[i].table], T)
    /\ \A i \in DOMAIN m : ListsOnce(m[i].columns, Items(m[i].table))

\* C28: for the tables of both schemas, create_columns holds once each
\* column only the declared table has and drop_columns once each column only
\* the live table has, each dropped column has exactly one warning, and a
\* table that is created or dropped has no entry in either map
C28_ColumnsClassified ==
    last.cmd = "compare" =>
        /\ ColumnsClassified(last.diff.create_columns,
                             {t \in InBoth : DeclaredOnly(t) # {}}, DeclaredOnly)
        /\ ColumnsClassified(last.diff.drop_columns,
                             {t \in InBoth : LiveOnly(t) # {}}, LiveOnly)
        /\ \A t \in InBoth :
              /\ \A c \in LiveOnly(t) : Cardinality(WarningsOf(t, c)) = 1
              /\ \A c \in ColNames \ LiveOnly(t) : WarningsOf(t, c) = {}
        /\ \A t \in TableNames \ InBoth : \A c \in ColNames : WarningsOf(t, c) = {}

\* a comparison of two tables both schemas have: one loses two columns and
\* one gains a column
C28_Witness ==
    /\ last.cmd = "compare"
    /\ InBoth = TableNames
    /\ \E t \in InBoth : LiveOnly(t) = ColNames
    /\ \E t \in InBoth : DeclaredOnly(t) # {}

\* C29: an enum only the declared schema has is in create_enums, and an enum
\* only the live schema has is in drop_enums
C29_EnumsClassified ==
    last.cmd = "compare" =>
        /\ last.declared.enums \ last.live.enums \subseteq Range(last.diff.create_enums)
        /\ last.live.enums \ last.declared.enums \subseteq Range(last.diff.drop_enums)

\* C30: a NOT NULL column without default that only the declared schema has,
\* in a table of both schemas, has a data-loss warning
C30_NotNullAddWarns ==
    last.cmd = "compare" =>
        \A t \in InBoth :
            \A c \in DeclaredOnly(t) :
                is_not_null(c) => WarningsOf(t, c) # {}

----------------------------------------------------------------------------
(* the SQL text of a diff *)

\* the place of a statement in the order of the up SQL
Group(s) ==
    CASE s.op = "DROP COLUMN IF EXISTS" -> 1
      [] s.op = "DROP TABLE IF EXISTS CASCADE" -> 2
      [] s.op = "CREATE TABLE" -> 3
      [] s.op = "ADD COLUMN" -> 4
      [] OTHER -> 5

\* C31: every run of compare_schemas over the schemas of the last comparison
\* gives the up SQL and the down SQL of the last comparison
C31_PlannerDeterministic ==
    last.cmd = "compare" =>
        \A diff \in CompareWhole(last.declared, last.live) :
            /\ diff.sql = last.diff.sql
            /\ generate_rollback(diff) = generate_rollback(last.diff)

\* C32: in the up SQL of a diff no statement of a later group precedes one
\* of an earlier group, the groups being DROP COLUMN, DROP TABLE, CREATE
\* TABLE, ADD COLUMN
C32_UpSqlGroupOrder ==
    last.cmd = "compare" =>
        \A i, j \in DOMAIN last.diff.sql :
            i < j => Group(last.diff.sql[i]) <= Group(last.diff.sql[j])

\* an up SQL that drops a column, creates a table and adds a column
C32_Witness ==
    /\ last.cmd = "compare"
    /\ {Group(last.diff.sql[i]) : i \in DOMAIN last.diff.sql} = {1, 3, 4}

\* C33: each CREATE TABLE statement of the up SQL defines every column the
\* declared table has, the primary-key columns included
C33_CreateTableDefinesAllColumns ==
    last.cmd = "compare" =>
        \A i \in DOMAIN last.diff.sql :
            LET s == last.diff.sql[i]
            IN s.op = "CREATE TABLE" =>
                  {s.cols[k].name : k \in DOMAIN s.cols}
                      = last.declared.tables[s.table]

\* C34: in the down SQL of a diff every DROP COLUMN of an added column comes
\* before every DROP TABLE of a created table, and the placeholder comments
\* of the dropped tables come after both
C34_DownSqlInverseOrder ==
    last.cmd = "compare" =>
        LET down == generate_rollback(last.diff)
        IN \A i, j \in DOMAIN down :
              i < j =>
                  /\ ~(Group(down[i]) = 2 /\ Group(down[j]) = 1)
                  /\ ~(Group(down[i]) = 5 /\ Group(down[j]) \in {1, 2})

\* C38: when the diff drops no table and no column, the up SQL run against
\* the live schema and the down SQL run after it leave exactly the tables
\* and columns of the live schema
C38_UpThenDownRestores ==
    (/\ last.cmd = "compare"
     /\ last.diff.drop_tables = <<>>
     /\ last.diff.drop_columns = <<>>) =>
        LET up == RunBatch(last.live.tables, last.diff.sql, 1, 0)
            down == RunBatch(up.cat, generate_rollback(last.diff), 1, 0)
        IN down.ok /\ down.cat = last.live.tables

\* an up SQL that creates a table and adds a column, accepted by the server
C38_Witness ==
    /\ last.cmd = "compare"
    /\ last.diff.drop_tables = <<>>
    /\ last.diff.drop_columns = <<>>
    /\ last.diff.create_tables # <<>>
    /\ last.diff.create_columns # <<>>
    /\ RunBatch(last.live.tables, last.diff.sql, 1, 0).ok
    /\ RunBatch(last.live.tables, last.diff.sql, 1, 0).cat # last.live.tables

\* the six collections has_changes is about
ChangeFields ==
    {"create_tables", "alter_tables", "drop_tables",
     "create_columns", "alter_columns", "drop_columns"}

\* C39: has_changes answers true exactly when one of create_tables,
\* alter_tables, drop_tables, create_columns, alter_columns, drop_columns is
\* not empty, a table key with an empty column list counting as not empty
C39_HasChangesExact ==
    last.cmd = "has_changes" =>
        (last.outcome = "changes") = (\E f \in ChangeFields : last.diff[f] # <<>>)

\* has_changes called on a diff whose only content is an enum to create and
\* a warning
C39_Witness ==
    /\ last.cmd = "has_changes"
    /\ \A f \in ChangeFields : last.diff[f] = <<>>
    /\ last.diff.create_enums # <<>>
    /\ last.diff.data_loss_warning # <<>>
    /\ last.outcome = "no_changes"

----------------------------------------------------------------------------
(* db pull *)

\* C35: a db push of the file db pull wrote, run next against the database
\* as db pull saw it, reads the file as a schema document, finds no changes
\* and sends no DDL
C35_PullThenPushNoOp ==
    (last.cmd = "db push" /\ last.pulled # NoFile) =>
        /\ last.outcome = "in_sync"
        /\ ~has_changes(last.diff)
        /\ \A i \in DOMAIN last.wire : last.wire[i].cmd # "EXEC"
        /\ db = last.before

----------------------------------------------------------------------------
(* deploy, one invocation after the other *)

\* C36: a deploy does not execute the up.sql of a migration that an earlier
\* deploy has executed and committed
C36_DeployAppliesOnce ==
    [][(Idle /\ last'.cmd = "deploy") =>
          \A i \in DOMAIN last'.wire :
              last'.wire[i].cmd = "EXEC" => last'.wire[i].mig \notin committed]_vars

----------------------------------------------------------------------------
(* create_migration stopped before meta.json *)

\* create_migration has stopped after writing up.sql and before meta.json
StoppedPartial ==
    /\ Idle
    /\ last.exit = 1
    /\ last.outcome \in {"up", "down"}

\* C37: after create_migration has stopped between writing up.sql and
\* writing meta.json, load_migrations returns no migration of the directory
\* it was writing and deploy executes nothing of it
C37_PartialMigrationNotLoaded ==
    [][StoppedPartial =>
          /\ (last'.cmd = "lib" /\ last'.outcome = "loaded") =>
                \A i \in DOMAIN last'.loaded : last'.loaded[i].dir # last.created
          /\ last'.cmd = "deploy" =>
                \A i \in DOMAIN last'.wire :
                    last'.wire[i].cmd = "EXEC" => last'.wire[i].mig # last.created]_vars

====
